---- MODULE Spec2Model ----
(***************************************************************************)
(* State-machine model of the gas monitor firmware of                      *)
(* derekzyl/smart_devices ("gas leak monitor/src/main.cpp"): the sensor    *)
(* cycle and the latching alarm, the relay, the WebSocket commands and the *)
(* HTTP control request, the settings kept in EEPROM, and the button menu. *)
(*                                                                         *)
(* Every handler is a function from program states to program states,      *)
(* written after its code, and one run of a handler is one step: loop()    *)
(* runs webSocket.loop(), the sensor cycle and handleButtons() one after    *)
(* the other, and a control request is taken between two of them.          *)
(*                                                                         *)
(* Floats are integers plus the value NaN, with the IEEE rule that every   *)
(* ordered comparison with NaN is false.                                   *)
(*                                                                         *)
(* Specifications:                                                         *)
(*   Spec          sensor cycles, WebSocket messages, HTTP control         *)
(*                 requests and button passes with Mode and Down           *)
(*   SpecMenu      button passes with all three buttons, and sensor cycles *)
(*   SpecSettings  saveSettings and loadSettings over drawn values         *)
(***************************************************************************)
EXTENDS Integers, Sequences, FiniteSets, TLC

(***************************************************************************)
(* Program constants                                                       *)
(***************************************************************************)
DefaultGasThreshold == 500
DefaultTempThreshold == 35
GasMax == 4095
TempMax == 100
debounceDelay == 50
MAX_MENU_ITEMS == 4
GasStep == 10
TempStep == 1
\* Smart switch: time without motion after which the light goes off (ms)
AUTO_OFF_DELAY == 60000

(***************************************************************************)
(* Bounds of the model                                                     *)
(***************************************************************************)
\* Button edits are followed only while a threshold stays within this many
\* steps of its compiled-in default.
MaxEditSteps == 1
\* Time between two passes of handleButtons, in milliseconds.
DtShort == 30
DtLong == 60
\* Smart switch: time between two modelled passes of its loop (ms)
Tick == 30000

(***************************************************************************)
(* Floats                                                                  *)
(***************************************************************************)
NaN == -99999

isnan(x) == x = NaN

\* a > b on floats
FGt(a, b) == ~isnan(a) /\ ~isnan(b) /\ a > b

\* a < b on floats
FLt(a, b) == ~isnan(a) /\ ~isnan(b) /\ a < b

\* a + d on floats (d finite)
FAdd(a, d) == IF isnan(a) THEN NaN ELSE a + d

\* digitalWrite levels
HIGH == TRUE
LOW == FALSE

(***************************************************************************)
(* Input sets                                                              *)
(***************************************************************************)
\* <<dht.readTemperature(), dht.readHumidity()>>: a temperature equal to the
\* default threshold, one above it, a failed read, a failed humidity read.
DhtReadings == {<<35, 50>>, <<40, 50>>, <<NaN, NaN>>, <<40, NaN>>}
\* analogRead(SMOKE_SENSOR_PIN): equal to the default threshold, above it.
GasReadings == {500, 600}
\* threshold values carried by setThresholds / the HTTP control request
GasCmdVals == {600}
TempCmdVals == {30}
\* HTTP parameter texts for relay / auto
ParamTexts == {"on", "0"}

MenuStates == {"MAIN_SCREEN", "MENU_MAIN", "SET_TEMP_THRESHOLD", "SET_GAS_THRESHOLD",
               "WIFI_SETTINGS", "DEVICE_INFO"}

(***************************************************************************)
(* State                                                                   *)
(***************************************************************************)
VARIABLES
  temperature, humidity, gasLevel,      \* last stored sensor readings
  alarmActive, relayState, autoMode,    \* alarm latch, relay, auto flag
  gasThreshold, tempThreshold,          \* thresholds in memory
  alarmPin, relayPin,                   \* output lines ALARM_PIN, RELAY_PIN
  eeprom,                               \* persisted settings
  stationSSID,                          \* station credentials in memory
  apMode, wifiConnected,                \* network mode, WiFi.status() == WL_CONNECTED
  currentMenu, menuPosition,            \* menu state machine
  menuButtonState, button2State, button3State,
  menuButtonLastState, button2LastState, button3LastState,
  stableFor,                            \* millis() - lastButtonDebounceTime, capped
  lcd,                                  \* what the display shows
  sw,                                   \* the smart switch: its globals and output
  quiet,                                \* smart switch: time its sensor has shown no
                                        \* motion to the automatic mode, capped
  last                                  \* the handler that ran last, with its input

progVars == <<temperature, humidity, gasLevel, alarmActive, relayState, autoMode,
              gasThreshold, tempThreshold, alarmPin, relayPin, eeprom, stationSSID,
              apMode, wifiConnected, currentMenu, menuPosition, lcd>>

buttonVars == <<menuButtonState, button2State, button3State,
                menuButtonLastState, button2LastState, button3LastState, stableFor>>

switchVars == <<sw, quiet>>

vars == <<progVars, buttonVars, switchVars, last>>

\* The program variables as one record, so that a handler is a function from
\* records to records and handlers compose as the calls in the source do.
St == [temperature |-> temperature, humidity |-> humidity, gasLevel |-> gasLevel,
       alarmActive |-> alarmActive, relayState |-> relayState, autoMode |-> autoMode,
       gasThreshold |-> gasThreshold, tempThreshold |-> tempThreshold,
       alarmPin |-> alarmPin, relayPin |-> relayPin, eeprom |-> eeprom,
       stationSSID |-> stationSSID, apMode |-> apMode, wifiConnected |-> wifiConnected,
       currentMenu |-> currentMenu, menuPosition |-> menuPosition, lcd |-> lcd]

\* The program variables take the values of record s in the next state.
Becomes(s) ==
  /\ temperature' = s.temperature
  /\ humidity' = s.humidity
  /\ gasLevel' = s.gasLevel
  /\ alarmActive' = s.alarmActive
  /\ relayState' = s.relayState
  /\ autoMode' = s.autoMode
  /\ gasThreshold' = s.gasThreshold
  /\ tempThreshold' = s.tempThreshold
  /\ alarmPin' = s.alarmPin
  /\ relayPin' = s.relayPin
  /\ eeprom' = s.eeprom
  /\ stationSSID' = s.stationSSID
  /\ apMode' = s.apMode
  /\ wifiConnected' = s.wifiConnected
  /\ currentMenu' = s.currentMenu
  /\ menuPosition' = s.menuPosition
  /\ lcd' = s.lcd

(***************************************************************************)
(* Display                                                                 *)
(***************************************************************************)
NoCursor == 0 - 1

\* What the display shows: the screen and the values printed on it.
Screen(name, n1, n2, n3, flag) ==
  [screen |-> name, n1 |-> n1, n2 |-> n2, n3 |-> n3, flag |-> flag]

\* updateLCD(): redraws the main screen, and only while it is the current one.
updateLCD(s) ==
  IF s.currentMenu = "MAIN_SCREEN"
  THEN [s EXCEPT !.lcd = Screen("MAIN_SCREEN", s.temperature, s.humidity, s.gasLevel,
                                s.alarmActive)]
  ELSE s

\* navigateMenu(): draws the current menu screen. MENU_MAIN prints a cursor
\* only on its three rows (positions 0..2).
navigateMenu(s) ==
  CASE s.currentMenu = "MENU_MAIN" ->
         [s EXCEPT !.lcd = Screen("MENU_MAIN",
                                  IF s.menuPosition \in 0..2 THEN s.menuPosition ELSE NoCursor,
                                  0, 0, FALSE)]
    [] s.currentMenu = "SET_TEMP_THRESHOLD" ->
         [s EXCEPT !.lcd = Screen("SET_TEMP_THRESHOLD", s.tempThreshold, 0, 0, FALSE)]
    [] s.currentMenu = "SET_GAS_THRESHOLD" ->
         [s EXCEPT !.lcd = Screen("SET_GAS_THRESHOLD", s.gasThreshold, 0, 0, FALSE)]
    [] s.currentMenu = "WIFI_SETTINGS" ->
         [s EXCEPT !.lcd = Screen("WIFI_SETTINGS", 0, 0, 0, s.apMode)]
    [] s.currentMenu = "DEVICE_INFO" ->
         [s EXCEPT !.lcd = Screen("DEVICE_INFO", 0, 0, 0, s.apMode)]
    [] OTHER -> updateLCD(s)

(***************************************************************************)
(* Alarm evaluator                                                         *)
(***************************************************************************)
\* Variant: thresholds compared with >= instead of >
shouldAlarm_nonStrict(s) ==
  ~FLt(s.gasLevel, s.gasThreshold) \/ ~FLt(s.temperature, s.tempThreshold)

shouldAlarm(s) ==
  FGt(s.gasLevel, s.gasThreshold) \/ FGt(s.temperature, s.tempThreshold)

\* Variant: a level-triggered alarm, cleared when the readings fall back
checkAlarms_levelTriggered(s) ==
  IF shouldAlarm(s) /\ ~s.alarmActive
  THEN IF s.autoMode
       THEN [s EXCEPT !.alarmActive = TRUE, !.alarmPin = HIGH,
                      !.relayState = TRUE, !.relayPin = HIGH]
       ELSE [s EXCEPT !.alarmActive = TRUE, !.alarmPin = HIGH]
  ELSE IF ~shouldAlarm(s) /\ s.alarmActive
       THEN [s EXCEPT !.alarmActive = FALSE, !.alarmPin = LOW]
       ELSE s

\* Variant: the relay is switched on with the alarm whatever autoMode is
checkAlarms_relayAlways(s) ==
  IF shouldAlarm(s) /\ ~s.alarmActive
  THEN [s EXCEPT !.alarmActive = TRUE, !.alarmPin = HIGH,
                 !.relayState = TRUE, !.relayPin = HIGH]
  ELSE s

\* Variant: the outputs are driven again in every triggering cycle
checkAlarms_retrigger(s) ==
  IF shouldAlarm(s)
  THEN IF s.autoMode
       THEN [s EXCEPT !.alarmActive = TRUE, !.alarmPin = HIGH,
                      !.relayState = TRUE, !.relayPin = HIGH]
       ELSE [s EXCEPT !.alarmActive = TRUE, !.alarmPin = HIGH]
  ELSE s

checkAlarms(s) ==
  IF shouldAlarm(s) /\ ~s.alarmActive
  THEN IF s.autoMode
       THEN [s EXCEPT !.alarmActive = TRUE, !.alarmPin = HIGH,
                      !.relayState = TRUE, !.relayPin = HIGH]
       ELSE [s EXCEPT !.alarmActive = TRUE, !.alarmPin = HIGH]
  ELSE s

\* Variant: each reading is stored when that reading itself is valid
sensorCycle_storeEach(s, t, h, g) ==
  LET read == [s EXCEPT !.temperature = IF isnan(t) THEN s.temperature ELSE t,
                        !.humidity = IF isnan(h) THEN s.humidity ELSE h]
      gas == [read EXCEPT !.gasLevel = g]
  IN  updateLCD(checkAlarms(gas))

\* Variant: the alarm conditions are checked only after a valid reading
sensorCycle_checkOnValid(s, t, h, g) ==
  LET valid == ~isnan(t) /\ ~isnan(h)
      read == IF valid THEN [s EXCEPT !.temperature = t, !.humidity = h] ELSE s
      gas == [read EXCEPT !.gasLevel = g]
  IN  updateLCD(IF valid THEN checkAlarms(gas) ELSE gas)

\* The sensor branch of loop(): t, h, g are what the sensors return.
sensorCycle(s, t, h, g) ==
  LET read == IF ~isnan(t) /\ ~isnan(h)
              THEN [s EXCEPT !.temperature = t, !.humidity = h]
              ELSE s
      gas == [read EXCEPT !.gasLevel = g]
  IN  updateLCD(checkAlarms(gas))

(***************************************************************************)
(* Persisted settings                                                      *)
(***************************************************************************)
\* EEPROM.write(ADDR_AUTO_MODE, b): a bool stored as one byte
BoolByte(b) == IF b THEN 1 ELSE 0

\* Variant: the auto-mode byte is not written
saveSettings_noAuto(s) ==
  [s EXCEPT !.eeprom = [ssid |-> s.stationSSID, gas |-> s.gasThreshold,
                        temp |-> s.tempThreshold, auto |-> s.eeprom.auto]]

saveSettings(s) ==
  [s EXCEPT !.eeprom = [ssid |-> s.stationSSID, gas |-> s.gasThreshold,
                        temp |-> s.tempThreshold, auto |-> BoolByte(s.autoMode)]]

loadGasThreshold(x) ==
  IF isnan(x) \/ FLt(x, 0) \/ FGt(x, GasMax) THEN DefaultGasThreshold ELSE x

\* Variant: the temperature threshold is checked against the gas range
loadTempThreshold_gasRange(x) ==
  IF isnan(x) \/ FLt(x, 0) \/ FGt(x, GasMax) THEN DefaultTempThreshold ELSE x

loadTempThreshold(x) ==
  IF isnan(x) \/ FLt(x, 0) \/ FGt(x, TempMax) THEN DefaultTempThreshold ELSE x

loadSettings(s) ==
  [s EXCEPT !.stationSSID = s.eeprom.ssid,
            !.gasThreshold = loadGasThreshold(s.eeprom.gas),
            !.tempThreshold = loadTempThreshold(s.eeprom.temp),
            !.autoMode = (s.eeprom.auto = 1)]

(***************************************************************************)
(* Network mode                                                            *)
(***************************************************************************)
StationPolls == 20

setupAccessPoint(s) == [s EXCEPT !.apMode = TRUE]

\* The wait loop of setupStation(): the association completes after
\* connectAfter polls; the result is WiFi.status() == WL_CONNECTED at exit.
RECURSIVE pollStation(_, _)
pollStation(timeout, connectAfter) ==
  IF ~(connectAfter <= timeout) /\ timeout < StationPolls
  THEN pollStation(timeout + 1, connectAfter)
  ELSE connectAfter <= timeout

setupStation(s, connectAfter) ==
  LET connected == pollStation(0, connectAfter)
      c == [s EXCEPT !.wifiConnected = connected]
  IN  IF connected THEN [c EXCEPT !.apMode = FALSE] ELSE c

(***************************************************************************)
(* Requests                                                                *)
(***************************************************************************)
\* A request as the handlers see it: the command (or handler), the keys
\* present, and the values carried (a field that is absent has its filler).
Req(kind, keys, flag, relay, auto, gas, temp, hum) ==
  [kind |-> kind, keys |-> keys, flag |-> flag, relay |-> relay, auto |-> auto,
   gas |-> gas, temp |-> temp, hum |-> hum]

\* command == "setRelay"
setRelay(s, m) ==
  IF "state" \in m.keys
  THEN [s EXCEPT !.relayState = m.flag, !.relayPin = (IF m.flag THEN HIGH ELSE LOW)]
  ELSE s

\* Variant: leaving auto mode switches the relay off
setAutoMode_clearsRelay(s, m) ==
  IF "state" \in m.keys
  THEN IF m.flag
       THEN [s EXCEPT !.autoMode = TRUE, !.eeprom.auto = BoolByte(TRUE)]
       ELSE [s EXCEPT !.autoMode = FALSE, !.eeprom.auto = BoolByte(FALSE),
                      !.relayState = FALSE, !.relayPin = LOW]
  ELSE s

\* command == "setAutoMode"
setAutoMode(s, m) ==
  IF "state" \in m.keys
  THEN [s EXCEPT !.autoMode = m.flag, !.eeprom.auto = BoolByte(m.flag)]
  ELSE s

\* Variant: both fields are applied without asking whether they are present
setThresholds_noKeyCheck(s, m) ==
  [s EXCEPT !.gasThreshold = m.gas, !.eeprom.gas = m.gas,
            !.tempThreshold = m.temp, !.eeprom.temp = m.temp]

\* command == "setThresholds"
setThresholds(s, m) ==
  LET g == IF "gas" \in m.keys
           THEN [s EXCEPT !.gasThreshold = m.gas, !.eeprom.gas = m.gas]
           ELSE s
  IN  IF "temp" \in m.keys
      THEN [g EXCEPT !.tempThreshold = m.temp, !.eeprom.temp = m.temp]
      ELSE g

\* Variant: the reset clears the latch and leaves the alarm line high
reset_lineLeftHigh(s, m) ==
  IF "alarm" \in m.keys /\ m.flag
  THEN [s EXCEPT !.alarmActive = FALSE]
  ELSE s

\* command == "reset"
reset(s, m) ==
  IF "alarm" \in m.keys /\ m.flag
  THEN [s EXCEPT !.alarmActive = FALSE, !.alarmPin = LOW]
  ELSE s

\* WStype_TEXT branch of handleWebSocketMessage for a well-formed JSON text
\* with a "command" key. getStatus and unknown commands change nothing.
handleWebSocketMessage(s, m) ==
  CASE m.kind = "setRelay" -> setRelay(s, m)
    [] m.kind = "setAutoMode" -> setAutoMode(s, m)
    [] m.kind = "setThresholds" -> setThresholds(s, m)
    [] m.kind = "reset" -> reset(s, m)
    [] OTHER -> s

\* value == "1" || value == "true" || value == "on"
ParamOn(value) == value \in {"1", "true", "on"}

\* POST /api/control
httpControl(s, m) ==
  LET r == IF "relay" \in m.keys
           THEN [s EXCEPT !.relayState = ParamOn(m.relay),
                          !.relayPin = (IF ParamOn(m.relay) THEN HIGH ELSE LOW)]
           ELSE s
      a == IF "auto" \in m.keys
           THEN [r EXCEPT !.autoMode = ParamOn(m.auto),
                          !.eeprom.auto = BoolByte(ParamOn(m.auto))]
           ELSE r
      g == IF "gasThreshold" \in m.keys
           THEN [a EXCEPT !.gasThreshold = m.gas, !.eeprom.gas = m.gas]
           ELSE a
  IN  IF "tempThreshold" \in m.keys
      THEN [g EXCEPT !.tempThreshold = m.temp, !.eeprom.temp = m.temp]
      ELSE g

(***************************************************************************)
(* Buttons and menu                                                        *)
(***************************************************************************)
\* Variant: Mode in a submenu goes back to the menu, as the screens say
modePressed_backToMenu(s) ==
  IF s.currentMenu \in {"MAIN_SCREEN", "SET_TEMP_THRESHOLD", "SET_GAS_THRESHOLD",
                        "WIFI_SETTINGS", "DEVICE_INFO"}
  THEN navigateMenu([s EXCEPT !.currentMenu = "MENU_MAIN", !.menuPosition = 0])
  ELSE updateLCD([s EXCEPT !.currentMenu = "MAIN_SCREEN"])

\* Button 1 (Mode) pressed
modePressed(s) ==
  IF s.currentMenu = "MAIN_SCREEN"
  THEN navigateMenu([s EXCEPT !.currentMenu = "MENU_MAIN", !.menuPosition = 0])
  ELSE updateLCD([s EXCEPT !.currentMenu = "MAIN_SCREEN"])

\* apMode = !apMode, then the matching network setup
toggleNetwork(s, connectAfter) ==
  LET t == [s EXCEPT !.apMode = ~s.apMode]
  IN  IF t.apMode THEN setupAccessPoint(t) ELSE setupStation(t, connectAfter)

\* Variant: Up in the menu stops at the first row instead of wrapping
upPressed_stopsAtTop(s, connectAfter) ==
  CASE s.currentMenu = "SET_TEMP_THRESHOLD" ->
         navigateMenu([s EXCEPT !.tempThreshold = FAdd(s.tempThreshold, TempStep)])
    [] s.currentMenu = "SET_GAS_THRESHOLD" ->
         navigateMenu([s EXCEPT !.gasThreshold = FAdd(s.gasThreshold, GasStep)])
    [] s.currentMenu = "WIFI_SETTINGS" -> toggleNetwork(s, connectAfter)
    [] s.currentMenu = "MENU_MAIN" ->
         navigateMenu([s EXCEPT !.menuPosition =
                         IF s.menuPosition = 0 THEN 0 ELSE s.menuPosition - 1])
    [] OTHER -> s

\* Button 2 (Up) pressed
upPressed(s, connectAfter) ==
  CASE s.currentMenu = "SET_TEMP_THRESHOLD" ->
         navigateMenu([s EXCEPT !.tempThreshold = FAdd(s.tempThreshold, TempStep)])
    [] s.currentMenu = "SET_GAS_THRESHOLD" ->
         navigateMenu([s EXCEPT !.gasThreshold = FAdd(s.gasThreshold, GasStep)])
    [] s.currentMenu = "WIFI_SETTINGS" -> toggleNetwork(s, connectAfter)
    [] s.currentMenu = "MENU_MAIN" ->
         navigateMenu([s EXCEPT !.menuPosition =
                         (s.menuPosition - 1 + MAX_MENU_ITEMS) % MAX_MENU_ITEMS])
    [] OTHER -> s

\* Variant: the last two cases swapped
submenu_swapped(position) ==
  CASE position = 0 -> "SET_TEMP_THRESHOLD"
    [] position = 1 -> "SET_GAS_THRESHOLD"
    [] position = 2 -> "DEVICE_INFO"
    [] position = 3 -> "WIFI_SETTINGS"
    [] OTHER -> "MENU_MAIN"

\* switch (menuPosition) of the Down branch in MENU_MAIN
submenu(position) ==
  CASE position = 0 -> "SET_TEMP_THRESHOLD"
    [] position = 1 -> "SET_GAS_THRESHOLD"
    [] position = 2 -> "WIFI_SETTINGS"
    [] position = 3 -> "DEVICE_INFO"
    [] OTHER -> "MENU_MAIN"

\* Button 3 (Down/Select) pressed
downPressed(s, connectAfter) ==
  IF s.currentMenu = "MAIN_SCREEN" THEN s
  ELSE navigateMenu(
    CASE s.currentMenu = "MENU_MAIN" ->
           [s EXCEPT !.currentMenu = submenu(s.menuPosition)]
      [] s.currentMenu = "SET_TEMP_THRESHOLD" ->
           [s EXCEPT !.gasThreshold = FAdd(s.gasThreshold, 0 - GasStep)]
      [] s.currentMenu = "SET_GAS_THRESHOLD" ->
           [s EXCEPT !.tempThreshold = FAdd(s.tempThreshold, 0 - TempStep)]
      [] s.currentMenu = "WIFI_SETTINGS" -> toggleNetwork(s, connectAfter)
      [] OTHER ->
           [s EXCEPT !.menuPosition = (s.menuPosition + 1) % MAX_MENU_ITEMS])

\* The debounce state as one record.
Bt == [menuButtonState |-> menuButtonState, button2State |-> button2State,
       button3State |-> button3State, menuButtonLastState |-> menuButtonLastState,
       button2LastState |-> button2LastState, button3LastState |-> button3LastState,
       stableFor |-> stableFor]

Min(a, b) == IF a < b THEN a ELSE b

\* millis() - lastButtonDebounceTime in a pass that reads levels mb, b2, b3
\* dt milliseconds after the previous pass. Only its comparison with
\* debounceDelay is used, so it is kept up to debounceDelay + 1.
elapsed(b, mb, b2, b3, dt) ==
  IF mb # b.menuButtonLastState \/ b2 # b.button2LastState \/ b3 # b.button3LastState
  THEN 0
  ELSE Min(b.stableFor + dt, debounceDelay + 1)

\* (millis() - lastButtonDebounceTime) > debounceDelay
stable(b, mb, b2, b3, dt) == elapsed(b, mb, b2, b3, dt) > debounceDelay

\* Variant: a button acts in every pass that reads it pressed and stable
handleButtons_levelTriggered(s, b, mb, b2, b3, dt, connectAfter) ==
  LET ok == stable(b, mb, b2, b3, dt)
      s1 == IF ok /\ mb THEN modePressed(s) ELSE s
      s2 == IF ok /\ b2 THEN upPressed(s1, connectAfter) ELSE s1
  IN  IF ok /\ b3 THEN downPressed(s2, connectAfter) ELSE s2

\* handleButtons(): the program state after one pass
handleButtons(s, b, mb, b2, b3, dt, connectAfter) ==
  LET ok == stable(b, mb, b2, b3, dt)
      s1 == IF ok /\ mb # b.menuButtonState /\ mb THEN modePressed(s) ELSE s
      s2 == IF ok /\ b2 # b.button2State /\ b2 THEN upPressed(s1, connectAfter) ELSE s1
  IN  IF ok /\ b3 # b.button3State /\ b3 THEN downPressed(s2, connectAfter) ELSE s2

\* handleButtons(): the debounce state after one pass
debounce(b, mb, b2, b3, dt) ==
  LET ok == stable(b, mb, b2, b3, dt)
  IN  [menuButtonState |-> IF ok THEN mb ELSE b.menuButtonState,
       button2State |-> IF ok THEN b2 ELSE b.button2State,
       button3State |-> IF ok THEN b3 ELSE b.button3State,
       menuButtonLastState |-> mb, button2LastState |-> b2, button3LastState |-> b3,
       stableFor |-> elapsed(b, mb, b2, b3, dt)]

(***************************************************************************)
(* Smart switch                                                            *)
(***************************************************************************)
\* The switch as setup() leaves it. sincePir is millis() - lastPirDetection,
\* kept up to AUTO_OFF_DELAY + 1 as only its comparison with AUTO_OFF_DELAY
\* is used; served tells that server.handleClient() of the current pass of
\* loop() has run a handler and the motion logic of that pass is still due.
SwitchGlobals ==
  [relayState |-> FALSE, autoMode |-> FALSE, pirDetected |-> FALSE,
   relayPin |-> LOW, sincePir |-> 0, served |-> FALSE]

\* Variant: the toggle is honoured in automatic mode too
handleToggle_ungated(w) ==
  [w EXCEPT !.relayState = ~w.relayState,
            !.relayPin = (IF ~w.relayState THEN HIGH ELSE LOW)]

\* handleToggle()
handleToggle(w) ==
  IF ~w.autoMode
  THEN [w EXCEPT !.relayState = ~w.relayState,
                 !.relayPin = (IF ~w.relayState THEN HIGH ELSE LOW)]
  ELSE w

\* handleSetMode(): autoArg is the value of the argument auto, "" when the
\* request has none
handleSetMode(w, autoArg) ==
  CASE autoArg = "true" -> [w EXCEPT !.autoMode = TRUE, !.pirDetected = FALSE]
    [] autoArg = "false" ->
         [w EXCEPT !.autoMode = FALSE, !.relayState = FALSE, !.relayPin = LOW]
    [] OTHER -> w

\* handleStatus(): reports, changes nothing
handleStatus(w) == w

\* The motion logic of loop(): pirHigh is digitalRead(pirPin) == HIGH, dt the
\* time since the previous pass.
pirLogic(w, pirHigh, dt) ==
  LET since == Min(w.sincePir + dt, AUTO_OFF_DELAY + 1)
      t == [w EXCEPT !.sincePir = since, !.served = FALSE]
  IN  IF ~t.autoMode THEN t
      ELSE IF pirHigh
           THEN [t EXCEPT !.pirDetected = TRUE, !.sincePir = 0,
                          !.relayState = TRUE, !.relayPin = HIGH]
           ELSE IF t.pirDetected /\ since > AUTO_OFF_DELAY
                THEN [t EXCEPT !.pirDetected = FALSE, !.relayState = FALSE,
                               !.relayPin = LOW]
                ELSE t

(***************************************************************************)
(* Start-up                                                                *)
(***************************************************************************)
\* EEPROM contents at power-up: erased flash (every byte 0xFF: both floats
\* read as NaN, the strings are 32 bytes of 0xFF) and a configured device.
ErasedImage == [ssid |-> "<0xFF x 32>", gas |-> NaN, temp |-> NaN, auto |-> 255]
ConfiguredImage == [ssid |-> "", gas |-> DefaultGasThreshold,
                    temp |-> DefaultTempThreshold, auto |-> 1]
\* a device whose EEPROM holds the name of a station network
StationImage == [ssid |-> "home", gas |-> DefaultGasThreshold,
                 temp |-> DefaultTempThreshold, auto |-> 1]
EepromImages == {ErasedImage, ConfiguredImage, StationImage}

\* polls after which a station association completes: in time, or too late
ConnectAfter == {3, 21}

\* The globals as their initialisers leave them, over EEPROM contents image.
Globals(image) ==
  [temperature |-> 0, humidity |-> 0, gasLevel |-> 0,
   alarmActive |-> FALSE, relayState |-> FALSE, autoMode |-> TRUE,
   gasThreshold |-> DefaultGasThreshold, tempThreshold |-> DefaultTempThreshold,
   alarmPin |-> LOW, relayPin |-> LOW, eeprom |-> image,
   stationSSID |-> "", apMode |-> TRUE, wifiConnected |-> FALSE,
   currentMenu |-> "MAIN_SCREEN", menuPosition |-> 0,
   lcd |-> Screen("", 0, 0, 0, FALSE)]

\* The network part of setup()
setupNetwork(s, connectAfter) ==
  IF s.stationSSID # ""
  THEN LET st == setupAccessPoint(setupStation(s, connectAfter))
       IN  IF ~st.wifiConnected THEN setupAccessPoint(st) ELSE st
  ELSE setupAccessPoint(s)

\* setup()
setup(s, connectAfter) ==
  LET pins == [s EXCEPT !.alarmPin = LOW, !.relayPin = LOW]
      net == setupNetwork(loadSettings(pins), connectAfter)
  IN  [net EXCEPT !.lcd = Screen("System Ready", 0, 0, 0, net.apMode)]

\* The program variables have the values of record s.
Is(s) ==
  /\ temperature = s.temperature
  /\ humidity = s.humidity
  /\ gasLevel = s.gasLevel
  /\ alarmActive = s.alarmActive
  /\ relayState = s.relayState
  /\ autoMode = s.autoMode
  /\ gasThreshold = s.gasThreshold
  /\ tempThreshold = s.tempThreshold
  /\ alarmPin = s.alarmPin
  /\ relayPin = s.relayPin
  /\ eeprom = s.eeprom
  /\ stationSSID = s.stationSSID
  /\ apMode = s.apMode
  /\ wifiConnected = s.wifiConnected
  /\ currentMenu = s.currentMenu
  /\ menuPosition = s.menuPosition
  /\ lcd = s.lcd

\* Debounce globals as initialised; setup() ends with delay(2000), so the
\* first pass of handleButtons is later than the debounce window.
ButtonsInit ==
  /\ menuButtonState = FALSE /\ button2State = FALSE /\ button3State = FALSE
  /\ menuButtonLastState = FALSE /\ button2LastState = FALSE
  /\ button3LastState = FALSE
  /\ stableFor = debounceDelay + 1

\* Power-up with EEPROM contents drawn from Images
Boot(Images) ==
  /\ \E image \in Images, connectAfter \in ConnectAfter :
       Is(setup(Globals(image), connectAfter))
  /\ ButtonsInit
  /\ sw = SwitchGlobals /\ quiet = 0
  /\ last = Req("setup", {}, FALSE, "", "", 0, 0, 0)

Init == Boot({ConfiguredImage})

(***************************************************************************)
(* Actions                                                                 *)
(***************************************************************************)
\* One due sensor cycle of loop(), the sensors returning readings from Dht
\* and Gas. The flag of the record kept in last tells whether the alarm was
\* already active when the cycle began.
Sense(Dht, Gas) ==
  \E th \in Dht, g \in Gas :
    /\ Becomes(sensorCycle(St, th[1], th[2], g))
    /\ UNCHANGED <<buttonVars, switchVars>>
    /\ last' = Req("cycle", {}, alarmActive, "", "", g, th[1], th[2])

SensorCycle == Sense(DhtReadings, GasReadings)

\* Texts a WebSocket client sends: getStatus, setRelay without and with its
\* state, setAutoMode, reset with alarm false and true, setThresholds with
\* one field and with both
WsMessages ==
  {Req(c, {}, FALSE, "", "", 0, 0, 0) : c \in {"getStatus", "setRelay"}}
  \cup {Req(c, {"state"}, f, "", "", 0, 0, 0) : c \in {"setRelay", "setAutoMode"}, f \in BOOLEAN}
  \cup {Req("reset", {"alarm"}, f, "", "", 0, 0, 0) : f \in BOOLEAN}
  \cup {Req("setThresholds", {"gas"}, FALSE, "", "", g, 0, 0) : g \in GasCmdVals}
  \cup {Req("setThresholds", {"temp"}, FALSE, "", "", 0, t, 0) : t \in TempCmdVals}
  \cup {Req("setThresholds", {"gas", "temp"}, FALSE, "", "", g, t, 0) :
          g \in GasCmdVals, t \in TempCmdVals}

\* One text message handled by webSocket.loop()
WsMessage ==
  \E m \in WsMessages :
    /\ Becomes(handleWebSocketMessage(St, m))
    /\ UNCHANGED <<buttonVars, switchVars>>
    /\ last' = m

\* A control request with the given parameters (an empty text or a zero
\* stands for a parameter that is absent)
HttpReq(r, a, g, t) ==
  Req("httpControl",
      (IF r = "" THEN {} ELSE {"relay"}) \cup (IF a = "" THEN {} ELSE {"auto"})
        \cup (IF g = 0 THEN {} ELSE {"gasThreshold"})
        \cup (IF t = 0 THEN {} ELSE {"tempThreshold"}),
      FALSE, r, a, g, t, 0)

\* Control requests an HTTP client posts: one parameter, relay with auto,
\* and all four
HttpRequests ==
  {HttpReq(r, "", 0, 0) : r \in ParamTexts}
  \cup {HttpReq("", a, 0, 0) : a \in ParamTexts}
  \cup {HttpReq("", "", g, 0) : g \in GasCmdVals}
  \cup {HttpReq("", "", 0, t) : t \in TempCmdVals}
  \cup {HttpReq(r, a, 0, 0) : r \in ParamTexts, a \in ParamTexts}
  \cup {HttpReq("on", "0", g, t) : g \in GasCmdVals, t \in TempCmdVals}

\* One POST /api/control
HttpControl ==
  \E m \in HttpRequests :
    /\ Becomes(httpControl(St, m))
    /\ UNCHANGED <<buttonVars, switchVars>>
    /\ last' = m

\* The presses a pass of handleButtons acts on
pressed(b, mb, b2, b3, dt) ==
  IF stable(b, mb, b2, b3, dt)
  THEN (IF mb # b.menuButtonState /\ mb THEN {"mode"} ELSE {})
       \cup (IF b2 # b.button2State /\ b2 THEN {"up"} ELSE {})
       \cup (IF b3 # b.button3State /\ b3 THEN {"down"} ELSE {})
  ELSE {}

Abs(x) == IF x < 0 THEN 0 - x ELSE x

\* The model follows a threshold edit only within MaxEditSteps steps of the default.
EditInBounds(s, t) ==
  /\ t.gasThreshold # s.gasThreshold =>
       Abs(t.gasThreshold - DefaultGasThreshold) <= MaxEditSteps * GasStep
  /\ t.tempThreshold # s.tempThreshold =>
       Abs(t.tempThreshold - DefaultTempThreshold) <= MaxEditSteps * TempStep

\* One pass of handleButtons in loop(), the pins read from Levels (Mode, Up,
\* Down) and the time since the previous pass from Dts. Only the network
\* screen waits for a station association.
ButtonPass(Levels, Dts) ==
  \E lv \in Levels, dt \in Dts,
     connectAfter \in (IF currentMenu = "WIFI_SETTINGS" THEN ConnectAfter ELSE {0}) :
    LET t == handleButtons(St, Bt, lv[1], lv[2], lv[3], dt, connectAfter)
        d == debounce(Bt, lv[1], lv[2], lv[3], dt)
    IN  /\ EditInBounds(St, t)
        /\ Becomes(t)
        /\ menuButtonState' = d.menuButtonState
        /\ button2State' = d.button2State
        /\ button3State' = d.button3State
        /\ menuButtonLastState' = d.menuButtonLastState
        /\ button2LastState' = d.button2LastState
        /\ button3LastState' = d.button3LastState
        /\ stableFor' = d.stableFor
        /\ UNCHANGED switchVars
        /\ last' = Req("buttons", pressed(Bt, lv[1], lv[2], lv[3], dt), FALSE, "", "", 0, 0, 0)

\* Pin levels with at most one button down
OneButton == {<<FALSE, FALSE, FALSE>>, <<TRUE, FALSE, FALSE>>,
              <<FALSE, TRUE, FALSE>>, <<FALSE, FALSE, TRUE>>}
\* Every combination of pin levels
AnyButtons == BOOLEAN \X BOOLEAN \X BOOLEAN
\* Mode and Down only, one at a time
ModeDown == {<<FALSE, FALSE, FALSE>>, <<TRUE, FALSE, FALSE>>, <<FALSE, FALSE, TRUE>>}

\* The button pass of Spec: Mode and Down, which open the menu, enter the
\* temperature screen and there edit gasThreshold; SpecMenu has all three.
Buttons == ButtonPass(ModeDown, {DtLong})

Next == SensorCycle \/ WsMessage \/ HttpControl \/ Buttons

Spec == Init /\ [][Next]_vars

(***************************************************************************)
(* The front panel: all three buttons at both pass intervals, and sensor   *)
(* cycles whose readings exceed the thresholds.                            *)
(***************************************************************************)
PanelButtons == ButtonPass(OneButton, {DtShort, DtLong})

PanelCycle == Sense({<<40, 50>>}, {600})

NextMenu == PanelButtons \/ PanelCycle

SpecMenu == Init /\ [][NextMenu]_vars

(***************************************************************************)
(* The network mode: power-up over erased and configured EEPROM contents,  *)
(* the station association completing in time or not, then the buttons.    *)
(***************************************************************************)
InitNet == Boot(EepromImages)

NetButtons == ButtonPass(OneButton, {DtLong})

NextNet == NetButtons

SpecNet == InitNet /\ [][NextNet]_vars

(***************************************************************************)
(* The smart switch: requests served by server.handleClient() and the      *)
(* motion logic of loop().                                                 *)
(***************************************************************************)
\* Values of the argument auto of /setmode: absent, the two the handler
\* knows, and another
SetModeArgs == {"", "true", "false", "1"}

\* Time since the previous pass of the motion logic
Ticks == {0, Tick}

\* GET /toggle
ToggleRequest ==
  /\ ~sw.served
  /\ sw' = [handleToggle(sw) EXCEPT !.served = TRUE]
  /\ UNCHANGED <<progVars, buttonVars, quiet>>
  /\ last' = Req("toggle", {}, FALSE, "", "", 0, 0, 0)

\* GET /setmode
SetModeRequest ==
  \E a \in SetModeArgs :
    /\ ~sw.served
    /\ sw' = [handleSetMode(sw, a) EXCEPT !.served = TRUE]
    /\ quiet' = (IF sw.autoMode /\ sw'.autoMode THEN quiet ELSE 0)
    /\ UNCHANGED <<progVars, buttonVars>>
    /\ last' = Req("setmode", IF a = "" THEN {} ELSE {"auto"}, FALSE, "", a, 0, 0, 0)

\* GET /status
StatusRequest ==
  /\ ~sw.served
  /\ sw' = [handleStatus(sw) EXCEPT !.served = TRUE]
  /\ UNCHANGED <<progVars, buttonVars, quiet>>
  /\ last' = Req("status", {}, FALSE, "", "", 0, 0, 0)

\* The rest of a pass of loop(). The flag of the record kept in last is the
\* level of the motion sensor. quiet adds up the time of the passes that
\* read no motion in automatic mode, and starts again at a pass that reads
\* motion and when automatic mode is entered.
PirStep ==
  \E pirHigh \in BOOLEAN, dt \in Ticks :
    /\ sw' = pirLogic(sw, pirHigh, dt)
    /\ quiet' = (IF sw.autoMode /\ ~pirHigh
                 THEN Min(quiet + dt, AUTO_OFF_DELAY + 1)
                 ELSE 0)
    /\ UNCHANGED <<progVars, buttonVars>>
    /\ last' = Req("pir", {}, pirHigh, "", "", dt, 0, 0)

NextSwitch == ToggleRequest \/ SetModeRequest \/ StatusRequest \/ PirStep

SpecSwitch == Init /\ [][NextSwitch]_vars

(***************************************************************************)
(* The settings store: saveSettings and loadSettings applied to thresholds *)
(* in memory and EEPROM contents drawn from the values below.              *)
(***************************************************************************)
\* gas threshold values: unreadable, below the range, its ends, inside,
\* just above, far above
SettingsGas == {NaN, 0 - 1, 0, 600, GasMax, GasMax + 1, 5000}
\* temperature threshold values likewise
SettingsTemp == {NaN, 0 - 1, 0, 30, TempMax, TempMax + 1}
\* auto-mode bytes: false, true, erased
AutoBytes == {0, 1, 255}

InitSettings ==
  /\ \E g \in SettingsGas, t \in SettingsTemp, a \in BOOLEAN,
        eg \in SettingsGas, et \in SettingsTemp, ea \in AutoBytes :
       Is([Globals([ssid |-> "", gas |-> eg, temp |-> et, auto |-> ea])
             EXCEPT !.gasThreshold = g, !.tempThreshold = t, !.autoMode = a])
  /\ ButtonsInit
  /\ sw = SwitchGlobals /\ quiet = 0
  /\ last = Req("setup", {}, FALSE, "", "", 0, 0, 0)

\* loadSettings(). The flag of the record kept in last tells whether
\* saveSettings ran right before.
LoadSettings ==
  /\ Becomes(loadSettings(St))
  /\ UNCHANGED <<buttonVars, switchVars>>
  /\ last' = Req("loadSettings", {}, last.kind = "saveSettings", "", "", 0, 0, 0)

\* saveSettings()
SaveSettings ==
  /\ Becomes(saveSettings(St))
  /\ UNCHANGED <<buttonVars, switchVars>>
  /\ last' = Req("saveSettings", {}, FALSE, "", "", 0, 0, 0)

NextSettings == LoadSettings \/ SaveSettings

SpecSettings == InitSettings /\ [][NextSettings]_vars

(***************************************************************************)
(* Properties of the alarm and the control commands                        *)
(***************************************************************************)
\* The stored readings exceed a threshold (strictly; nothing exceeds or is
\* exceeded by NaN).
Exceeds ==
  \/ (gasLevel # NaN /\ gasThreshold # NaN /\ gasLevel > gasThreshold)
  \/ (temperature # NaN /\ tempThreshold # NaN /\ temperature > tempThreshold)

\* The stored readings are at or below both thresholds.
AtOrBelow ==
  /\ gasLevel # NaN /\ gasThreshold # NaN /\ gasLevel <= gasThreshold
  /\ temperature # NaN /\ tempThreshold # NaN /\ temperature <= tempThreshold

\* The last handler was a WebSocket reset command with alarm = true.
ResetAlarm == last.kind = "reset" /\ "alarm" \in last.keys /\ last.flag

\* The last handler was a command that carries a relay state.
RelayCommand ==
  \/ (last.kind = "setRelay" /\ "state" \in last.keys)
  \/ (last.kind = "httpControl" /\ "relay" \in last.keys)

\* The last handler was a command that sets autoMode and carries no relay state.
AutoCommand ==
  \/ (last.kind = "setAutoMode" /\ "state" \in last.keys)
  \/ (last.kind = "httpControl" /\ "auto" \in last.keys /\ "relay" \notin last.keys)

\* C1: the alarm is a latch. A step that takes alarmActive from true to false
\* is a WebSocket reset command with alarm = true; no evaluation cycle,
\* button pass, setRelay, setAutoMode, setThresholds or HTTP control request
\* clears it.
C1_AlarmLatch ==
  [][(alarmActive /\ ~alarmActive') => ResetAlarm']_vars

\* C1 witness: a cycle whose readings are at or below both thresholds has run
\* with the alarm latched, and the alarm is still active.
C1_Witness ==
  last.kind = "cycle" /\ last.flag /\ AtOrBelow /\ alarmActive

\* C2: while the alarm is inactive and its output low, a step leaves them so
\* unless it is an evaluation cycle whose readings exceed a threshold; so with
\* every cycle at or below both thresholds the alarm stays inactive forever.
C2_StaysInactive ==
  [][(~alarmActive /\ alarmPin = LOW /\ ~(last'.kind = "cycle" /\ ~AtOrBelow'))
       => (~alarmActive' /\ alarmPin' = LOW)]_vars

\* C2 witness: a cycle read a gas level equal to the threshold, with the
\* temperature equal to its threshold too, and the alarm is inactive.
C2_Witness ==
  /\ last.kind = "cycle" /\ ~last.flag
  /\ gasLevel = gasThreshold /\ temperature = tempThreshold
  /\ ~alarmActive /\ alarmPin = LOW

\* C3: a cycle that begins with the alarm inactive and whose readings exceed
\* a threshold activates the alarm and its output; it switches the relay and
\* its output on if autoMode is true and leaves both as they were otherwise.
C3_Trigger ==
  [][(last'.kind = "cycle" /\ ~alarmActive /\ Exceeds')
       => /\ alarmActive' /\ alarmPin' = HIGH
          /\ autoMode => (relayState' /\ relayPin' = HIGH)
          /\ ~autoMode => (relayState' = relayState /\ relayPin' = relayPin)]_vars

\* C3 witness: a cycle has just activated the alarm in manual mode with the
\* relay off.
C3_Witness ==
  /\ last.kind = "cycle" /\ ~last.flag /\ Exceeds
  /\ alarmActive /\ alarmPin = HIGH /\ ~autoMode /\ ~relayState /\ relayPin = LOW

\* C4: a command that carries a relay state leaves relayState and the relay
\* output unchanged when autoMode is true.
C4_RelayOnlyInManual ==
  [][(RelayCommand' /\ autoMode) => (relayState' = relayState /\ relayPin' = relayPin)]_vars

\* C5: a command that sets autoMode (and carries no relay state) leaves
\* relayState and the relay output unchanged; and the relay goes from off to on
\* only by a relay command or by a cycle in auto mode that takes the alarm
\* from inactive to active.
C5_AutoModeKeepsRelay ==
  [][/\ AutoCommand' => (relayState' = relayState /\ relayPin' = relayPin)
     /\ (~relayState /\ relayState') =>
          \/ RelayCommand'
          \/ (last'.kind = "cycle" /\ autoMode /\ ~alarmActive /\ alarmActive')]_vars

\* C5 witness: setAutoMode{state: true} has been handled while the alarm was
\* latched and the relay off, and the relay is still off.
C5_Witness ==
  /\ last.kind = "setAutoMode" /\ "state" \in last.keys /\ last.flag
  /\ autoMode /\ alarmActive /\ Exceeds /\ ~relayState /\ relayPin = LOW

\* C6: setThresholds applies and persists exactly the fields present; the
\* other threshold, its persisted copy, autoMode and its persisted copy, the
\* alarm and the relay are unchanged.
C6_PartialThresholds ==
  [][last'.kind = "setThresholds" =>
       /\ IF "gas" \in last'.keys
          THEN gasThreshold' = last'.gas /\ eeprom'.gas = last'.gas
          ELSE gasThreshold' = gasThreshold /\ eeprom'.gas = eeprom.gas
       /\ IF "temp" \in last'.keys
          THEN tempThreshold' = last'.temp /\ eeprom'.temp = last'.temp
          ELSE tempThreshold' = tempThreshold /\ eeprom'.temp = eeprom.temp
       /\ autoMode' = autoMode /\ eeprom'.auto = eeprom.auto
       /\ alarmActive' = alarmActive /\ alarmPin' = alarmPin
       /\ relayState' = relayState /\ relayPin' = relayPin]_vars

\* C6 witness: setThresholds with only gas has been handled; the gas
\* threshold and its persisted copy have the new value, the temperature
\* threshold and its persisted copy still the default.
C6_Witness ==
  /\ last.kind = "setThresholds" /\ last.keys = {"gas"}
  /\ gasThreshold = last.gas /\ eeprom.gas = last.gas
  /\ gasThreshold # DefaultGasThreshold
  /\ tempThreshold = DefaultTempThreshold /\ eeprom.temp = DefaultTempThreshold

(***************************************************************************)
(* Properties of the menu                                                  *)
(***************************************************************************)
\* The last handler was a pass of handleButtons that acted on exactly the
\* presses in set.
Pressed(set) == last.kind = "buttons" /\ last.keys = set

\* C7: after a pass of handleButtons that changed a threshold, the persisted
\* thresholds equal the thresholds in memory.
C7_EditsPersisted ==
  [][(last'.kind = "buttons"
        /\ (gasThreshold' # gasThreshold \/ tempThreshold' # tempThreshold))
       => (eeprom'.gas = gasThreshold' /\ eeprom'.temp = tempThreshold')]_vars

Within(x, lo, hi) == x # NaN /\ lo <= x /\ x <= hi

\* C8: loadSettings takes each threshold from its persisted value when that
\* is readable and within its range (0..4095 for gas, 0..100 for temperature)
\* and takes the default (500, 35) otherwise, each field by itself; so after a
\* load both thresholds are within their ranges.
C8_LoadValidates ==
  [][last'.kind = "loadSettings" =>
       /\ gasThreshold' = (IF Within(eeprom.gas, 0, 4095) THEN eeprom.gas ELSE 500)
       /\ tempThreshold' = (IF Within(eeprom.temp, 0, 100) THEN eeprom.temp ELSE 35)
       /\ Within(gasThreshold', 0, 4095)
       /\ Within(tempThreshold', 0, 100)]_vars

\* C8 witness: a load found the gas threshold 5000 and a valid temperature
\* threshold, and took the default for gas and the persisted value for
\* temperature.
C8_Witness ==
  /\ last.kind = "loadSettings"
  /\ eeprom.gas = 5000 /\ gasThreshold = 500
  /\ eeprom.temp = 100 /\ tempThreshold = 100

\* C9: loadSettings right after saveSettings, with both thresholds within
\* their ranges, leaves the thresholds and autoMode as they were (and so a
\* further save and load does too).
C9_RoundTrip ==
  [][(last'.kind = "loadSettings" /\ last'.flag
        /\ Within(gasThreshold, 0, 4095) /\ Within(tempThreshold, 0, 100))
       => (gasThreshold' = gasThreshold /\ tempThreshold' = tempThreshold
             /\ autoMode' = autoMode)]_vars

\* C9 witness: a load right after a save, with the gas threshold at the top
\* of its range, the temperature threshold at the bottom and autoMode false.
C9_Witness ==
  /\ last.kind = "loadSettings" /\ last.flag
  /\ gasThreshold = 4095 /\ tempThreshold = 0 /\ ~autoMode

(***************************************************************************)
(* Properties of the menu                                                  *)
(***************************************************************************)
\* The pass that led to this state acted on exactly the one press b.
Acted(b) == last.kind = "buttons" /\ last.keys = {b}

\* C11: menuPosition is in 0..3 in every reachable state, and an Up press in
\* MENU_MAIN sets it to (menuPosition - 1 + 4) mod 4 and stays in MENU_MAIN
\* (so Up at position 0 gives 3, and Up again gives 2).
C11_MenuPosition ==
  /\ [](menuPosition \in 0..3)
  /\ [][(Acted("up")' /\ currentMenu = "MENU_MAIN") =>
          /\ menuPosition' = (menuPosition - 1 + 4) % 4
          /\ (menuPosition = 0 => menuPosition' = 3)
          /\ (menuPosition = 3 => menuPosition' = 2)
          /\ currentMenu' = "MENU_MAIN"]_vars

\* Up was pressed at position 0 of the menu: the position is 3 and the menu
\* is drawn without a cursor.
C11_Witness ==
  /\ Acted("up") /\ currentMenu = "MENU_MAIN" /\ menuPosition = 3
  /\ lcd.screen = "MENU_MAIN" /\ lcd.n1 = NoCursor

\* C12: a Down press in MENU_MAIN enters the submenu selected by menuPosition
\* (0 SET_TEMP_THRESHOLD, 1 SET_GAS_THRESHOLD, 2 WIFI_SETTINGS, 3 DEVICE_INFO)
\* and changes no threshold, apMode or menuPosition; an Up or a Down press in
\* MAIN_SCREEN changes nothing of the program state.
C12_DownSelects ==
  [][/\ (Acted("down")' /\ currentMenu = "MENU_MAIN") =>
          /\ menuPosition = 0 => currentMenu' = "SET_TEMP_THRESHOLD"
          /\ menuPosition = 1 => currentMenu' = "SET_GAS_THRESHOLD"
          /\ menuPosition = 2 => currentMenu' = "WIFI_SETTINGS"
          /\ menuPosition = 3 => currentMenu' = "DEVICE_INFO"
          /\ UNCHANGED <<gasThreshold, tempThreshold, apMode, menuPosition>>
     /\ ((Acted("up")' \/ Acted("down")') /\ currentMenu = "MAIN_SCREEN") =>
          UNCHANGED progVars]_vars

\* Down was pressed at position 3 of the menu, reached by Up from position 0.
C12_Witness ==
  Acted("down") /\ currentMenu = "DEVICE_INFO" /\ menuPosition = 3

\* C13: each threshold screen edits only its own threshold. In
\* SET_TEMP_THRESHOLD Up adds 1 to tempThreshold and Down subtracts 1 from
\* it, gasThreshold unchanged; in SET_GAS_THRESHOLD Up adds 10 to
\* gasThreshold and Down subtracts 10 from it, tempThreshold unchanged; the
\* screen stays the same.
C13_OwnThreshold ==
  [][/\ (Acted("up")' /\ currentMenu = "SET_TEMP_THRESHOLD") =>
          /\ tempThreshold' = tempThreshold + 1
          /\ UNCHANGED <<gasThreshold, currentMenu>>
     /\ (Acted("down")' /\ currentMenu = "SET_TEMP_THRESHOLD") =>
          /\ tempThreshold' = tempThreshold - 1
          /\ UNCHANGED <<gasThreshold, currentMenu>>
     /\ (Acted("up")' /\ currentMenu = "SET_GAS_THRESHOLD") =>
          /\ gasThreshold' = gasThreshold + 10
          /\ UNCHANGED <<tempThreshold, currentMenu>>
     /\ (Acted("down")' /\ currentMenu = "SET_GAS_THRESHOLD") =>
          /\ gasThreshold' = gasThreshold - 10
          /\ UNCHANGED <<tempThreshold, currentMenu>>]_vars

\* What the display shows when it is drawn from the current state.
Drawn == navigateMenu(St).lcd

\* C19: a handled Mode, Up or Down press that changes the menu state, a
\* threshold or the network mode leaves the display showing the content of
\* the new state (menu cursor, threshold value, network mode); this includes
\* an Up press in WIFI_SETTINGS, which toggles apMode.
C19_PressRedraws ==
  [][(/\ last'.kind = "buttons" /\ last'.keys # {}
      /\ <<currentMenu, menuPosition, gasThreshold, tempThreshold, apMode>>'
           # <<currentMenu, menuPosition, gasThreshold, tempThreshold, apMode>>)
       => lcd' = Drawn']_vars

\* A step is a pass of handleButtons that reads a button pressed, with all
\* three levels stable for more than 50 ms, while the debounced state of that
\* button is released.
ModeEdge ==
  last'.kind = "buttons" /\ ~menuButtonState /\ menuButtonLastState' /\ stableFor' > 50
UpEdge ==
  last'.kind = "buttons" /\ ~button2State /\ button2LastState' /\ stableFor' > 50
DownEdge ==
  last'.kind = "buttons" /\ ~button3State /\ button3LastState' /\ stableFor' > 50

\* C23: button events are edge-triggered. A pass of handleButtons changes
\* the program state only for a button read pressed, stable for more than
\* 50 ms, whose debounced state was released; that pass sets the debounced
\* state, which stays set while the button is read pressed, so a held button
\* causes one transition and no more; such a press does cause its transition
\* (Mode changes the screen, Up moves the menu cursor, Down enters a
\* submenu); a pass that reads the button released causes none.
C23_EdgeTriggered ==
  [][last'.kind = "buttons" =>
       /\ ~(ModeEdge \/ UpEdge \/ DownEdge) => UNCHANGED progVars
       /\ ModeEdge => (menuButtonState' /\ currentMenu' # currentMenu)
       /\ UpEdge => button2State'
       /\ DownEdge => button3State'
       /\ (UpEdge /\ ~ModeEdge /\ currentMenu = "MENU_MAIN") =>
            menuPosition' # menuPosition
       /\ (DownEdge /\ ~ModeEdge /\ ~UpEdge /\ currentMenu = "MENU_MAIN") =>
            currentMenu' # currentMenu
       /\ (menuButtonState /\ menuButtonLastState') => menuButtonState'
       /\ (button2State /\ button2LastState') => button2State'
       /\ (button3State /\ button3LastState') => button3State']_vars

\* Mode opened the menu and is still held, stable, one pass later: the menu
\* is still open.
C23_Witness ==
  /\ last.kind = "buttons" /\ last.keys = {}
  /\ menuButtonState /\ menuButtonLastState /\ stableFor > 50
  /\ currentMenu = "MENU_MAIN" /\ lcd.screen = "MENU_MAIN"

(***************************************************************************)
(* Properties of the network mode                                          *)
(***************************************************************************)
\* C14: whenever station mode is entered and the association fails, apMode
\* is true afterwards: after a start-up with a station SSID, and after an Up
\* or Down press in WIFI_SETTINGS that toggles apMode from true to false.
C14_FallsBackToAP ==
  /\ []((last.kind = "setup" /\ stationSSID # "" /\ ~wifiConnected) => apMode)
  /\ [][(/\ Acted("up")' \/ Acted("down")'
         /\ currentMenu = "WIFI_SETTINGS" /\ apMode
         /\ ~wifiConnected') => apMode']_vars

\* C21: after the network setup of start-up, apMode is false exactly when a
\* station SSID is present and the association succeeded, and true when no
\* SSID is present or the association failed.
C21_StartupMode ==
  last.kind = "setup" => (apMode <=> ~(stationSSID # "" /\ wifiConnected))

(***************************************************************************)
(* Properties of the sensor cycle                                          *)
(***************************************************************************)
\* The cycle that led to this state got an invalid temperature or humidity.
InvalidRead == last.kind = "cycle" /\ (last.temp = NaN \/ last.hum = NaN)

\* The readings of DhtReadings that are valid
ValidReadings == {th \in DhtReadings : th[1] # NaN /\ th[2] # NaN}

\* C15: a sensor cycle whose temperature or humidity reading is NaN leaves
\* the stored temperature and humidity as they were, so the stored pair (what
\* every status snapshot carries) is always the initial one or a valid reading.
C15_InvalidReadKeeps ==
  /\ [](<<temperature, humidity>> \in {<<0, 0>>} \cup ValidReadings)
  /\ [][InvalidRead' => UNCHANGED <<temperature, humidity>>]_vars

\* A cycle read temperature 40 with an invalid humidity and the stored
\* temperature is still 35.
C15_Witness ==
  /\ last.kind = "cycle" /\ last.temp = 40 /\ last.hum = NaN
  /\ temperature = 35 /\ humidity = 50

\* C17: a cycle that finds the trigger condition true while the alarm is
\* already active changes neither alarmActive, relayState nor the two output
\* lines; a relay that is off stays off, also with autoMode true.
C17_NoRetrigger ==
  [][(last'.kind = "cycle" /\ alarmActive /\ Exceeds') =>
       UNCHANGED <<alarmActive, relayState, alarmPin, relayPin>>]_vars

\* A triggering cycle with the alarm already active, autoMode true and the
\* relay off.
C17_Witness ==
  /\ last.kind = "cycle" /\ last.flag /\ Exceeds
  /\ alarmActive /\ autoMode /\ ~relayState /\ relayPin = LOW

\* C18 (as stated): in a cycle whose temperature/humidity read is invalid the
\* alarm conditions are not checked, and the alarm and the relay state are
\* unchanged by that cycle.
C18_NoCheckAfterInvalidRead ==
  [][InvalidRead' => UNCHANGED <<alarmActive, relayState, alarmPin, relayPin>>]_vars

\* C18 (amended): a cycle whose temperature/humidity read is invalid keeps
\* the stored temperature and humidity, takes the new gas level, and checks
\* the alarm conditions on them: if the alarm was inactive and a threshold is
\* exceeded, the alarm latches (with the relay in auto mode); otherwise the
\* alarm and the relay are unchanged.
C18_CheckAfterInvalidRead ==
  [][InvalidRead' =>
       /\ UNCHANGED <<temperature, humidity>>
       /\ gasLevel' = last'.gas
       /\ IF ~alarmActive /\ Exceeds'
          THEN /\ alarmActive' /\ alarmPin' = HIGH
               /\ IF autoMode
                  THEN relayState' /\ relayPin' = HIGH
                  ELSE UNCHANGED <<relayState, relayPin>>
          ELSE UNCHANGED <<alarmActive, relayState, alarmPin, relayPin>>]_vars

\* A cycle with an invalid read latched the alarm on the gas level alone.
C18_Witness ==
  /\ InvalidRead /\ ~last.flag /\ alarmActive
  /\ gasLevel > gasThreshold /\ temperature <= tempThreshold

(***************************************************************************)
(* Properties of the smart switch                                          *)
(***************************************************************************)
\* C16: a toggle request flips relayState and the relay output when autoMode
\* is false; when autoMode is true it leaves relayState, autoMode and
\* pirDetected (and the output) unchanged.
C16_ToggleOnlyInManual ==
  [][last'.kind = "toggle" =>
       IF sw.autoMode
       THEN /\ sw'.relayState = sw.relayState /\ sw'.relayPin = sw.relayPin
            /\ sw'.autoMode /\ sw'.pirDetected = sw.pirDetected
       ELSE /\ sw'.relayState = ~sw.relayState
            /\ sw'.relayPin = (IF sw.relayState THEN LOW ELSE HIGH)
            /\ ~sw'.autoMode /\ sw'.pirDetected = sw.pirDetected]_vars

\* A toggle request served in automatic mode while motion keeps the relay on.
C16_Witness ==
  /\ last.kind = "toggle"
  /\ sw.autoMode /\ sw.pirDetected /\ sw.relayState /\ sw.relayPin = HIGH

(***************************************************************************)
(* Properties of the loaded auto-mode flag                                 *)
(***************************************************************************)
\* C20: loadSettings yields autoMode = true (the default) when the persisted
\* auto-mode byte is neither 0 nor 1, such as the 0xFF of erased storage, and
\* the stored value otherwise.
C20_AutoModeDefault ==
  [][last'.kind = "loadSettings" =>
       autoMode' = (IF eeprom.auto \in {0, 1} THEN eeprom.auto = 1 ELSE TRUE)]_vars

(***************************************************************************)
(* Properties of the output lines                                          *)
(***************************************************************************)
\* C22: in every reachable state the alarm line is high exactly when
\* alarmActive and the relay line is high exactly when relayState, from
\* start-up (both low and false) on, through sensor cycles, WebSocket
\* commands and HTTP control requests.
C22_LinesMirrorState ==
  /\ (alarmPin = HIGH) <=> alarmActive
  /\ (relayPin = HIGH) <=> relayState

\* A reset command cleared a latched alarm while the relay is on.
C22_Witness ==
  /\ ResetAlarm /\ ~alarmActive /\ alarmPin = LOW
  /\ relayState /\ relayPin = HIGH /\ Exceeds

\* C24: in automatic mode with the relay on, the pass of loop() at which the
\* motion sensor has reported no motion for more than 60 s turns the relay
\* off; this includes a relay that was switched on by a toggle request before
\* automatic mode was entered.
C24_AutoOff ==
  [][(last'.kind = "pir" /\ sw.autoMode /\ sw.relayState /\ quiet' > 60000)
       => (~sw'.relayState /\ sw'.relayPin = LOW)]_vars

====
